---- MODULE Spec2Model ----
(***************************************************************************)
(* Star / snowflake sales warehouse: the flat dataset generator            *)
(* (generate_data.py), the two schema builders (schemas/star_schema.py,    *)
(* schemas/snowflake_schema.py) and the query comparator                   *)
(* (queries/performance_comparison.py), as one state machine.              *)
(*                                                                         *)
(* Units: money is kept in cents, discounts in thousandths.                *)
(***************************************************************************)
EXTENDS Integers, Sequences, FiniteSets, TLC

(***************************************************************************)
(* Bounds of the model.                                                    *)
(***************************************************************************)
\* Row counts of the generated tables (500 / 2000 / 50 / 50000 in the source).
NUM_PRODUCTS == 2
NUM_CUSTOMERS == 2
NUM_SALES_PEOPLE == 2
NUM_SALES_RECORDS == 2
\* The two pseudo-random streams (random, numpy.random) are modelled as
\* periodic sequences; these are their periods.
PyPeriod == 3
NpPeriod == 3
\* LIMIT of suite entries 2 and 4 (10 and 20 in the source), scaled so that
\* the limit cuts rows off in a dataset of this size.
TopProductsLimit == 1
TopSalespeopleLimit == 1
\* Entry points started in one behaviour.
MaxRuns == 3
\* The clock readings of the comparator are modelled as a periodic sequence
\* of elapsed times; this is its period.
ClockPeriod == 2
\* Rows of a query result execute_query_with_timing keeps (5 in the
\* source), scaled so that results of this size are cut.
ResultsKept == 1

(***************************************************************************)
(* Program constants.                                                      *)
(***************************************************************************)
\* generate_data.py:19-20, scaled together with the literal lists
\* ukrainian_regions and ukrainian_cities below (5 and 20 in the source).
NUM_REGIONS == 2
NUM_CITIES == 2
CentsPerUnit == 100
PerMille == 1000

country_names == <<"Ukraina", "Polshcha", "Nimechchyna">>
ukrainian_regions == <<"Kyivska", "Lvivska">>
ukrainian_cities == <<"Kyiv", "Lviv">>
category_names == <<"Elektronika", "Odyah">>
\* subcategory_data: category_id -> names of its subcategories
subcategory_data == <<
    <<"Smartfony", "Noutbuky">>,
    <<"Sorochky">> >>

\* Values one draw of a pseudo-random stream can take; RandTop is the
\* largest.  A draw v stands for the fraction v / RandTop of a range; the
\* middle level gives prices and discounts that do not divide evenly.
RandLevels == {0, 2, 3}
RandTop == CHOOSE v \in RandLevels : \A w \in RandLevels : w <= v

(***************************************************************************)
(* Sequence helpers.                                                       *)
(***************************************************************************)
Range(s) == {s[i] : i \in DOMAIN s}

RECURSIVE Concat(_)
\* Concat(<<s1, ..., sn>>) = s1 \o ... \o sn
Concat(ss) == IF ss = <<>> THEN <<>> ELSE Head(ss) \o Concat(Tail(ss))

RECURSIVE SumSeq(_)
SumSeq(s) == IF s = <<>> THEN 0 ELSE Head(s) + SumSeq(Tail(s))

\* Rows of t whose column col equals v, in table order.
Matching(t, col, v) == SelectSeq(t, LAMBDA r : r[col] = v)

(***************************************************************************)
(* Pseudo-random streams (generate_data.py:15-16 seed both).  A stream is  *)
(* a periodic sequence of levels; draw number k reads position k modulo    *)
(* the period.                                                             *)
(***************************************************************************)
PyTapes == [1..PyPeriod -> RandLevels]
NpTapes == [1..NpPeriod -> RandLevels]

Draw(tape, k) == tape[((k - 1) % Len(tape)) + 1]

\* random.randint(lo, hi): an integer of lo..hi
randint(lo, hi, v) == lo + ((hi - lo) * v) \div RandTop

\* random.uniform(lo, hi), on an integer grid
uniform(lo, hi, v) == lo + ((hi - lo) * v) \div RandTop

\* DataFrame.sample(1).iloc[0]: one row of the frame
sample(df, v) == df[randint(1, Len(df), v)]

(***************************************************************************)
(* Calendar (datetime, timedelta) as generate_time_data uses it.           *)
(***************************************************************************)
start_date == [year |-> 2022, month |-> 1, day |-> 1]
end_date == [year |-> 2024, month |-> 12, day |-> 31]

IsLeap(y) == (y % 4 = 0) /\ ((y % 100 # 0) \/ (y % 400 = 0))

DaysInMonth(y, m) ==
    IF m = 2 THEN (IF IsLeap(y) THEN 29 ELSE 28)
    ELSE IF m \in {4, 6, 9, 11} THEN 30 ELSE 31

RECURSIVE DaysBeforeMonth(_, _)
DaysBeforeMonth(y, m) ==
    IF m = 1 THEN 0 ELSE DaysBeforeMonth(y, m - 1) + DaysInMonth(y, m - 1)

\* date.toordinal(): days since 0001-01-01, that day being 1
ToOrdinal(d) ==
    LET y == d.year - 1
    IN  y * 365 + (y \div 4) - (y \div 100) + (y \div 400)
        + DaysBeforeMonth(d.year, d.month) + d.day

RECURSIVE FromMonthOffset(_, _, _)
\* The date n days after the first day of month m of year y.
FromMonthOffset(y, m, n) ==
    IF n < DaysInMonth(y, m) THEN [year |-> y, month |-> m, day |-> n + 1]
    ELSE IF m = 12 THEN FromMonthOffset(y + 1, 1, n - DaysInMonth(y, m))
    ELSE FromMonthOffset(y, m + 1, n - DaysInMonth(y, m))

\* d + timedelta(days = n)
AddDays(d, n) == FromMonthOffset(d.year, d.month, d.day - 1 + n)

\* Mutant of DateLeq: d1 < d2
DateBefore(d1, d2) == ToOrdinal(d1) < ToOrdinal(d2)

\* d1 <= d2
DateLeq(d1, d2) == ToOrdinal(d1) <= ToOrdinal(d2)

MonthNames == <<"January", "February", "March", "April", "May", "June", "July",
                "August", "September", "October", "November", "December">>
WeekdayNames == <<"Monday", "Tuesday", "Wednesday", "Thursday", "Friday",
                  "Saturday", "Sunday">>

\* date.weekday(): Monday is 0
Weekday(d) == (ToOrdinal(d) + 6) % 7

\* Mutant of TimeRecord: the quarter taken as month // 3 + 1.
TimeRecordQuarterOff(time_id, d) ==
    [time_id |-> time_id, date |-> d, year |-> d.year,
     quarter |-> <<"Q", (d.month \div 3) + 1>>,
     month |-> d.month, month_name |-> MonthNames[d.month], day |-> d.day,
     weekday |-> Weekday(d) + 1, weekday_name |-> WeekdayNames[Weekday(d) + 1]]

\* The row generate_time_data appends for current_date (lines 148-158).
TimeRecord(time_id, d) ==
    [time_id |-> time_id, date |-> d, year |-> d.year,
     quarter |-> <<"Q", ((d.month - 1) \div 3) + 1>>,
     month |-> d.month, month_name |-> MonthNames[d.month], day |-> d.day,
     weekday |-> Weekday(d) + 1, weekday_name |-> WeekdayNames[Weekday(d) + 1]]

\* The time rows the scaled dataset keeps: the days with these time_ids out
\* of the 1096 the generator writes (2022-01-01, 2023-04-01, 2024-12-31).
SampleDays == <<1, 456, 1096>>

(***************************************************************************)
(* Dataset generator (generate_data.py).  py and np are the two streams.   *)
(***************************************************************************)
generate_countries ==
    [i \in 1..Len(country_names) |->
        [country_id |-> i, country_name |-> country_names[i]]]

generate_regions ==
    [i \in 1..Len(ukrainian_regions) |->
        [region_id |-> i, region_name |-> <<ukrainian_regions[i], "oblast">>,
         country_id |-> 1]]

\* Mutant of generate_cities: region ids drawn from 1..NUM_REGIONS + 1.
generate_citiesPastRegions(py) ==
    [i \in 1..Len(ukrainian_cities) |->
        [city_id |-> i, city_name |-> ukrainian_cities[i],
         region_id |-> randint(1, NUM_REGIONS + 1, Draw(py, i))]]

generate_cities(py) ==
    [i \in 1..Len(ukrainian_cities) |->
        [city_id |-> i, city_name |-> ukrainian_cities[i],
         region_id |-> randint(1, NUM_REGIONS, Draw(py, i))]]

generate_categories ==
    [i \in 1..Len(category_names) |->
        [category_id |-> i, category_name |-> category_names[i]]]

RECURSIVE SubcategoriesFrom(_, _)
\* Lines 86-94: one row for each name of each category, ids counting up.
SubcategoriesFrom(category_id, subcategory_id) ==
    IF category_id > Len(subcategory_data) THEN <<>>
    ELSE LET subcats == subcategory_data[category_id]
         IN  [j \in 1..Len(subcats) |->
                [subcategory_id |-> subcategory_id + j - 1,
                 subcategory_name |-> subcats[j],
                 category_id |-> category_id]]
             \o SubcategoriesFrom(category_id + 1, subcategory_id + Len(subcats))

generate_subcategories == SubcategoriesFrom(1, 1)

\* Number of the stream draws made before each generator function starts.
DrawsBefore ==
    [products |-> NUM_CITIES,
     customers |-> NUM_CITIES + 2 * NUM_PRODUCTS,
     sales_people |-> NUM_CITIES + 2 * NUM_PRODUCTS + NUM_CUSTOMERS,
     sales |-> NUM_CITIES + 2 * NUM_PRODUCTS + NUM_CUSTOMERS + NUM_SALES_PEOPLE]

generate_products(py) ==
    [i \in 1..NUM_PRODUCTS |->
        [product_id |-> i, product_name |-> <<"product", i>>,
         product_code |-> <<"PRD", i>>,
         subcategory_id |->
            randint(1, Len(generate_subcategories),
                    Draw(py, DrawsBefore.products + 2 * i - 1)),
         unit_price |->
            uniform(10 * CentsPerUnit, 5000 * CentsPerUnit,
                    Draw(py, DrawsBefore.products + 2 * i))]]

generate_customer_data(py) ==
    [i \in 1..NUM_CUSTOMERS |->
        [customer_id |-> i, customer_name |-> <<"customer", i>>,
         email |-> <<"email", i>>, phone |-> <<"phone", i>>,
         city_id |-> randint(1, NUM_CITIES, Draw(py, DrawsBefore.customers + i)),
         registration_date |-> start_date]]

generate_sales_people_data(py) ==
    [i \in 1..NUM_SALES_PEOPLE |->
        [salesperson_id |-> i, salesperson_name |-> <<"salesperson", i>>,
         hire_date |-> start_date,
         region_id |->
            randint(1, NUM_REGIONS, Draw(py, DrawsBefore.sales_people + i))]]

generate_time_data ==
    [i \in 1..Len(SampleDays) |->
        TimeRecord(SampleDays[i], AddDays(start_date, SampleDays[i] - 1))]

\* round(whole + rem / d) for 0 <= rem < d: to the nearest integer, halves
\* to the even one
RoundParts(whole, rem, d) ==
    IF 2 * rem < d THEN whole
    ELSE IF 2 * rem > d THEN whole + 1
    ELSE IF whole % 2 = 0 THEN whole ELSE whole + 1

\* Mutant of TotalAmount: the discount left out.
TotalAmountUndiscounted(quantity, unit_price, discount) == quantity * unit_price

\* Line 177: round(quantity * unit_price * (1 - discount), 2), in cents with
\* the discount in thousandths; the product is taken apart so that no
\* intermediate value leaves 32 bits.
TotalAmount(quantity, unit_price, discount) ==
    LET gross == quantity * unit_price
        off == gross * discount                     \* thousandths of a cent
        borrow == IF off % PerMille = 0 THEN 0 ELSE 1
    IN  RoundParts(gross - (off \div PerMille) - borrow,
                   (PerMille - (off % PerMille)) % PerMille, PerMille)

generate_sales_data(time_df, products_df, customers_df, sales_people_df, py, np) ==
    [i \in 1..NUM_SALES_RECORDS |->
        LET time_record == sample(time_df, Draw(np, 4 * i - 3))
            product_record == sample(products_df, Draw(np, 4 * i - 2))
            customer_record == sample(customers_df, Draw(np, 4 * i - 1))
            salesperson_record == sample(sales_people_df, Draw(np, 4 * i))
            quantity == randint(1, 10, Draw(py, DrawsBefore.sales + 2 * i - 1))
            unit_price == product_record.unit_price
            discount == uniform(0, 200, Draw(py, DrawsBefore.sales + 2 * i))
        IN  [sale_id |-> i,
             time_id |-> time_record.time_id,
             product_id |-> product_record.product_id,
             customer_id |-> customer_record.customer_id,
             salesperson_id |-> salesperson_record.salesperson_id,
             quantity |-> quantity,
             unit_price |-> unit_price,
             discount |-> discount,
             total_amount |-> TotalAmount(quantity, unit_price, discount)]]

\* The ten flat files save_data_to_csv writes, keyed by file.
save_data_to_csv(py, np) ==
    LET products_df == generate_products(py)
        customers_df == generate_customer_data(py)
        sales_people_df == generate_sales_people_data(py)
        time_df == generate_time_data
    IN  [countries |-> generate_countries,
         regions |-> generate_regions,
         cities |-> generate_cities(py),
         categories |-> generate_categories,
         subcategories |-> generate_subcategories,
         products |-> products_df,
         customers |-> customers_df,
         sales_people |-> sales_people_df,
         time_dimension |-> time_df,
         sales_facts |-> generate_sales_data(time_df, products_df, customers_df,
                                             sales_people_df, py, np)]

GeneratedDatasets == {save_data_to_csv(py, np) : py \in PyTapes, np \in NpTapes}

(***************************************************************************)
(* A relational store (one SQLite file).  tables maps the name of each     *)
(* table that exists to its definition and rows; indexes is the set of     *)
(* secondary indexes.  SQLite does not enforce FOREIGN KEY clauses unless  *)
(* asked to, and neither builder asks.                                     *)
(***************************************************************************)
Builders == {"star", "snowflake"}

\* No file at the path yet; sqlite3.connect creates it, empty.
NoStore == [exists |-> FALSE, tables |-> <<>>, indexes |-> {}]

Connected(store) == [store EXCEPT !.exists = TRUE]

HasTable(store, name) == name \in DOMAIN store.tables

FK(col, table, key) == [column |-> col, ref_table |-> table, ref_column |-> key]

FactForeignKeys ==
    {FK("time_id", "dim_time", "time_id"),
     FK("product_id", "dim_product", "product_id"),
     FK("customer_id", "dim_customer", "customer_id"),
     FK("salesperson_id", "dim_salesperson", "salesperson_id")}

\* What a CREATE TABLE statement of a builder declares: the primary key and
\* the FOREIGN KEY clauses.
Declared(pk, fks) == [primary_key |-> pk, foreign_keys |-> fks, rows |-> <<>>]

\* Mutant of StarTablesToDrop: sales_facts is not dropped.
StarTablesToDropWithoutFacts ==
    <<"dim_time", "dim_product", "dim_customer", "dim_salesperson">>

\* star_schema.py:32-33
StarTablesToDrop ==
    <<"sales_facts", "dim_product", "dim_customer", "dim_salesperson", "dim_time">>

\* star_schema.py:39-114, in execution order
StarCreateTables ==
    << <<"dim_product", Declared("product_id", {})>>,
       <<"dim_customer", Declared("customer_id", {})>>,
       <<"dim_salesperson", Declared("salesperson_id", {})>>,
       <<"dim_time", Declared("time_id", {})>>,
       <<"sales_facts", Declared("sale_id", FactForeignKeys)>> >>

Index(name, table, column) == [name |-> name, table |-> table, column |-> column]

\* star_schema.py:117-127
StarIndexes ==
    << Index("idx_sales_time", "sales_facts", "time_id"),
       Index("idx_sales_product", "sales_facts", "product_id"),
       Index("idx_sales_customer", "sales_facts", "customer_id"),
       Index("idx_sales_salesperson", "sales_facts", "salesperson_id"),
       Index("idx_time_date", "dim_time", "date"),
       Index("idx_time_year", "dim_time", "year"),
       Index("idx_product_category", "dim_product", "category_name"),
       Index("idx_customer_city", "dim_customer", "city_name"),
       Index("idx_customer_region", "dim_customer", "region_name") >>

\* snowflake_schema.py:32-35
SnowflakeTablesToDrop ==
    <<"sales_facts", "dim_product", "dim_customer", "dim_salesperson", "dim_time",
      "dim_category", "dim_subcategory", "dim_city", "dim_region", "dim_country">>

\* snowflake_schema.py:43-176, in table_creation_order
SnowflakeCreateTables ==
    << <<"dim_country", Declared("country_id", {})>>,
       <<"dim_region",
         Declared("region_id", {FK("country_id", "dim_country", "country_id")})>>,
       <<"dim_city",
         Declared("city_id", {FK("region_id", "dim_region", "region_id")})>>,
       <<"dim_category", Declared("category_id", {})>>,
       <<"dim_subcategory",
         Declared("subcategory_id",
                  {FK("category_id", "dim_category", "category_id")})>>,
       <<"dim_product",
         Declared("product_id",
                  {FK("subcategory_id", "dim_subcategory", "subcategory_id")})>>,
       <<"dim_customer",
         Declared("customer_id", {FK("city_id", "dim_city", "city_id")})>>,
       <<"dim_salesperson",
         Declared("salesperson_id", {FK("region_id", "dim_region", "region_id")})>>,
       <<"dim_time", Declared("time_id", {})>>,
       <<"sales_facts", Declared("sale_id", FactForeignKeys)>> >>

\* snowflake_schema.py:182-198
SnowflakeIndexes ==
    << Index("idx_sf_sales_time", "sales_facts", "time_id"),
       Index("idx_sf_sales_product", "sales_facts", "product_id"),
       Index("idx_sf_sales_customer", "sales_facts", "customer_id"),
       Index("idx_sf_sales_salesperson", "sales_facts", "salesperson_id"),
       Index("idx_sf_time_date", "dim_time", "date"),
       Index("idx_sf_time_year", "dim_time", "year"),
       Index("idx_sf_product_subcategory", "dim_product", "subcategory_id"),
       Index("idx_sf_subcategory_category", "dim_subcategory", "category_id"),
       Index("idx_sf_customer_city", "dim_customer", "city_id"),
       Index("idx_sf_city_region", "dim_city", "region_id"),
       Index("idx_sf_region_country", "dim_region", "country_id"),
       Index("idx_sf_salesperson_region", "dim_salesperson", "region_id") >>

(***************************************************************************)
(* SQL statements.  Each operator gives [store, ok]: the store after the   *)
(* statement and whether it succeeded; a statement that raises leaves the  *)
(* store as it was.  The sqlite3 module opens no transaction for DDL, so   *)
(* every statement's effect is durable at once.                            *)
(***************************************************************************)
Ok(store) == [store |-> store, ok |-> TRUE]
Raise(store) == [store |-> store, ok |-> FALSE]

\* A table goes, and its indexes go with it.
WithoutTable(store, name) ==
    [store EXCEPT
        !.tables = [n \in DOMAIN store.tables \ {name} |-> store.tables[n]],
        !.indexes = {ix \in store.indexes : ix.table # name}]

\* DROP TABLE IF EXISTS name
\* Mutant of DropTableIfExists: the table is left where it is.
KeepTable(store, name) == Ok(store)

DropTableIfExists(store, name) == Ok(WithoutTable(store, name))

\* CREATE TABLE name (...): an error when the table exists
CreateTable(store, name, table) ==
    IF HasTable(store, name) THEN Raise(store)
    ELSE Ok([store EXCEPT !.tables = (name :> table) @@ store.tables])

\* CREATE INDEX ix.name ON ix.table(ix.column): an error when the name is
\* taken or the table is missing
CreateIndex(store, ix) ==
    IF (\E other \in store.indexes : other.name = ix.name)
       \/ ~HasTable(store, ix.table)
    THEN Raise(store)
    ELSE Ok([store EXCEPT !.indexes = @ \cup {ix}])


\* conn.execute(stmt)
Execute(store, stmt) ==
    CASE stmt.op = "drop" -> DropTableIfExists(store, stmt.table)
      [] stmt.op = "create" -> CreateTable(store, stmt.table, stmt.decl)
      [] stmt.op = "index" -> CreateIndex(store, stmt.index)

RECURSIVE ExecuteAll(_, _, _)
\* The statements of stmts in turn, up to the first that raises.  fault > 0
\* makes statement number fault raise for a reason outside the program (the
\* disk is full, the file is locked); fault = 0 is a run without such a fault.
ExecuteAll(store, stmts, fault) ==
    IF stmts = <<>> THEN Ok(store)
    ELSE IF fault = 1 THEN Raise(store)
    ELSE LET r == Execute(store, Head(stmts))
         IN  IF r.ok
             THEN ExecuteAll(r.store, Tail(stmts), IF fault = 0 THEN 0 ELSE fault - 1)
             ELSE r

\* The statements of a schema: the drops, the creations, the indexes.
Statements(drops, creations, indexes) ==
    [i \in 1..Len(drops) |-> [op |-> "drop", table |-> drops[i]]]
    \o [i \in 1..Len(creations) |->
           [op |-> "create", table |-> creations[i][1], decl |-> creations[i][2]]]
    \o [i \in 1..Len(indexes) |-> [op |-> "index", index |-> indexes[i]]]

\* The statements create_star_schema executes (star_schema.py:35-130).
StarSchemaStatements == Statements(StarTablesToDrop, StarCreateTables, StarIndexes)

\* The statements create_snowflake_schema executes (snowflake_schema.py:37-201).
SnowflakeSchemaStatements ==
    Statements(SnowflakeTablesToDrop, SnowflakeCreateTables, SnowflakeIndexes)

SchemaStatements(b) ==
    IF b = "star" THEN StarSchemaStatements ELSE SnowflakeSchemaStatements

\* create_star_schema / create_snowflake_schema
create_schema(b, store, fault) == ExecuteAll(store, SchemaStatements(b), fault)

\* Mutant of merge: a left join, the left rows without a match kept with
\* -1 in the right frame's columns.
mergeLeft(left, right, key) ==
    LET columns == UNION {DOMAIN right[j] : j \in DOMAIN right}
    IN  Concat([i \in 1..Len(left) |->
                  LET matches == Matching(right, key, left[i][key])
                  IN  IF matches = <<>>
                      THEN << left[i] @@ [c \in columns |-> -1] >>
                      ELSE [j \in 1..Len(matches) |-> left[i] @@ matches[j]]])

(***************************************************************************)
(* pandas: merge, column selection, to_sql.                                *)
(***************************************************************************)
\* left.merge(right, on = key): the inner join, in the order of left; every
\* left row is paired with each right row of the same key, and a left row
\* without one is left out.
merge(left, right, key) ==
    Concat([i \in 1..Len(left) |->
              LET matches == Matching(right, key, left[i][key])
              IN  [j \in 1..Len(matches) |-> left[i] @@ matches[j]]])

\* frame[[columns]]
Columns(frame, columns) ==
    [i \in 1..Len(frame) |-> [c \in columns |-> frame[i][c]]]

\* What to_sql creates: a table with the frame's columns and nothing else
\* declared, holding the frame's rows.
PandasTable(frame) == [primary_key |-> "", foreign_keys |-> {}, rows |-> frame]

\* frame.to_sql(name, conn, if_exists = 'replace', index = False): an
\* existing table is dropped, then the table is created from the frame and
\* the rows are inserted and committed.
to_sql(store, name, frame) ==
    LET dropped == WithoutTable(store, name)
    IN  [dropped EXCEPT !.tables = (name :> PandasTable(frame)) @@ dropped.tables]

\* Mutant of StarDimProduct: the category names taken from the next row of
\* categories.csv.
StarDimProductShiftedCategory(flat) ==
    LET n == Len(flat.categories)
        shifted == [i \in 1..n |->
                      [flat.categories[i] EXCEPT
                          !.category_name = flat.categories[(i % n) + 1].category_name]]
    IN  Columns(merge(merge(flat.products, flat.subcategories, "subcategory_id"),
                      shifted, "category_id"),
                {"product_id", "product_name", "product_code", "unit_price",
                 "subcategory_name", "category_name"})

\* star_schema.py:152-155
StarDimProduct(flat) ==
    Columns(merge(merge(flat.products, flat.subcategories, "subcategory_id"),
                  flat.categories, "category_id"),
            {"product_id", "product_name", "product_code", "unit_price",
             "subcategory_name", "category_name"})

\* star_schema.py:158-162
StarDimCustomer(flat) ==
    Columns(merge(merge(merge(flat.customers, flat.cities, "city_id"),
                        flat.regions, "region_id"),
                  flat.countries, "country_id"),
            {"customer_id", "customer_name", "email", "phone",
             "registration_date", "city_name", "region_name", "country_name"})

\* star_schema.py:165-168
StarDimSalesperson(flat) ==
    Columns(merge(merge(flat.sales_people, flat.regions, "region_id"),
                  flat.countries, "country_id"),
            {"salesperson_id", "salesperson_name", "hire_date", "region_name",
             "country_name"})

\* Mutant of StarFrames: sales_facts written first.
StarFramesFactsFirst(flat) ==
    << <<"sales_facts", flat.sales_facts>>,
       <<"dim_product", StarDimProduct(flat)>>,
       <<"dim_customer", StarDimCustomer(flat)>>,
       <<"dim_salesperson", StarDimSalesperson(flat)>>,
       <<"dim_time", flat.time_dimension>> >>

\* star_schema.py:171-175: the frames load_data writes, in order
StarFrames(flat) ==
    << <<"dim_product", StarDimProduct(flat)>>,
       <<"dim_customer", StarDimCustomer(flat)>>,
       <<"dim_salesperson", StarDimSalesperson(flat)>>,
       <<"dim_time", flat.time_dimension>>,
       <<"sales_facts", flat.sales_facts>> >>

\* Mutant of SnowflakeFrames: dim_product written as the star builder
\* writes it, joined with its subcategory and category.
SnowflakeFramesDenormalized(flat) ==
    << <<"dim_country", flat.countries>>,
       <<"dim_region", flat.regions>>,
       <<"dim_city", flat.cities>>,
       <<"dim_category", flat.categories>>,
       <<"dim_subcategory", flat.subcategories>>,
       <<"dim_product", StarDimProduct(flat)>>,
       <<"dim_customer", flat.customers>>,
       <<"dim_salesperson", flat.sales_people>>,
       <<"dim_time", flat.time_dimension>>,
       <<"sales_facts", flat.sales_facts>> >>

\* snowflake_schema.py:223-232: the frames load_data writes, in order
SnowflakeFrames(flat) ==
    << <<"dim_country", flat.countries>>,
       <<"dim_region", flat.regions>>,
       <<"dim_city", flat.cities>>,
       <<"dim_category", flat.categories>>,
       <<"dim_subcategory", flat.subcategories>>,
       <<"dim_product", flat.products>>,
       <<"dim_customer", flat.customers>>,
       <<"dim_salesperson", flat.sales_people>>,
       <<"dim_time", flat.time_dimension>>,
       <<"sales_facts", flat.sales_facts>> >>

Frames(b, flat) == IF b = "star" THEN StarFrames(flat) ELSE SnowflakeFrames(flat)

RECURSIVE WriteFrames(_, _, _)
\* The to_sql calls of load_data in turn; fault > 0 makes call number fault
\* raise before it changes the store, fault = 0 is a run without a fault.
WriteFrames(store, frames, fault) ==
    IF frames = <<>> THEN Ok(store)
    ELSE IF fault = 1 THEN Raise(store)
    ELSE WriteFrames(to_sql(store, Head(frames)[1], Head(frames)[2]),
                     Tail(frames), IF fault = 0 THEN 0 ELSE fault - 1)

\* The files both load_data functions read (star_schema.py:140-149,
\* snowflake_schema.py:211-220).
SourceFiles ==
    {"countries", "regions", "cities", "categories", "subcategories", "products",
     "customers", "sales_people", "time_dimension", "sales_facts"}

\* Mutant of load_data: each file is read when its table is about to be
\* written, so that without sales_facts.csv alone the dimension tables are
\* written before the read raises.
load_dataReadingLate(b, store, flat, fault) ==
    IF SourceFiles \subseteq DOMAIN flat
    THEN WriteFrames(store, Frames(b, flat), fault)
    ELSE IF SourceFiles \ DOMAIN flat = {"sales_facts"}
    THEN LET frames == Frames(b, [file \in SourceFiles |->
                                    IF file \in DOMAIN flat THEN flat[file] ELSE <<>>])
         IN  WriteFrames(store, frames, Len(frames))
    ELSE Raise(store)

\* StarSchemaBuilder.load_data / SnowflakeSchemaBuilder.load_data: the ten
\* read_csv calls come first, and one of them raises FileNotFoundError when
\* its file is not there; then the frames are written.
load_data(b, store, flat, fault) ==
    IF SourceFiles \subseteq DOMAIN flat
    THEN WriteFrames(store, Frames(b, flat), fault)
    ELSE Raise(store)

(***************************************************************************)
(* SQL queries: joins, grouping, ordering.  A joined row maps each table   *)
(* alias of the FROM clause to a row of that table.                        *)
(***************************************************************************)
TableRows(store, name) == store.tables[name].rows

\* FROM table alias
\* alias.column of a joined row
Value(r, col) == r[col[1]][col[2]]

\* rows JOIN table alias ON left = alias.right: the inner join
Join(rows, alias, table, left, right) ==
    Concat([i \in 1..Len(rows) |->
              LET matches == SelectSeq(table, LAMBDA t : Value(rows[i], left) = t[right])
              IN  [j \in 1..Len(matches) |-> (alias :> matches[j]) @@ rows[i]]])

RECURSIVE Distinct(_)
\* The values of s without repetitions, in the order of their first occurrence.
Distinct(s) ==
    IF s = <<>> THEN <<>>
    ELSE LET rest == Distinct(SubSeq(s, 1, Len(s) - 1))
             last == s[Len(s)]
         IN  IF last \in Range(rest) THEN rest ELSE Append(rest, last)

\* The values of the GROUP BY columns in a row.
KeyOf(r, key) == [k \in DOMAIN key |-> Value(r, key[k])]

\* GROUP BY key: the groups in the order their keys first occur, each the
\* sequence of its rows.
GroupBy(rows, key) ==
    LET keys == Distinct([i \in 1..Len(rows) |-> KeyOf(rows[i], key)])
    IN  [i \in 1..Len(keys) |-> SelectSeq(rows, LAMBDA r : KeyOf(r, key) = keys[i])]

\* Mutant of Sum: the value of the group's first row.
SumOfFirstRow(rows, col) == Value(rows[1], col)

\* SUM(col) over the rows of a group
Sum(rows, col) == SumSeq([i \in 1..Len(rows) |-> Value(rows[i], col)])

\* AVG(col): kept exact, as numerator and denominator
Avg(rows, col) == <<Sum(rows, col), Len(rows)>>

\* ORDER BY column direction: rows equal in the column keep the order they
\* have.
OrderBy(rows, column, direction) ==
    LET Before(a, b) ==
            IF direction = "DESC" THEN a[column] > b[column] ELSE a[column] < b[column]
        Rank(i) ==
            Cardinality({j \in 1..Len(rows) :
                            \/ Before(rows[j], rows[i])
                            \/ ~Before(rows[i], rows[j]) /\ j < i}) + 1
    IN  [k \in 1..Len(rows) |-> rows[CHOOSE i \in 1..Len(rows) : Rank(i) = k]]

\* LIMIT n
Limit(rows, n) == SubSeq(rows, 1, IF Len(rows) < n THEN Len(rows) ELSE n)

\* The columns of a result row that the SELECT list names.
(***************************************************************************)
(* The query suite of get_analytical_queries                               *)
(* (performance_comparison.py:87-260): five pairs, the star query and the  *)
(* snowflake query of each.  Rows tied in the ORDER BY column come out in  *)
(* the order of their groups, the same way in both stores.                 *)
(***************************************************************************)
Amount == <<"sf", "total_amount">>
Quantity == <<"sf", "quantity">>
Discount == <<"sf", "discount">>

\* sales_facts sf JOIN dim_customer dc ON sf.customer_id = dc.customer_id
FactsWithCustomer(store, rows) ==
    Join(rows, "dc", TableRows(store, "dim_customer"),
         <<"sf", "customer_id">>, "customer_id")

\* ... JOIN dim_city dci ON dc.city_id = dci.city_id
\*     JOIN dim_region dr ON dci.region_id = dr.region_id
WithCustomerRegion(store, rows) ==
    Join(Join(rows, "dci", TableRows(store, "dim_city"), <<"dc", "city_id">>, "city_id"),
         "dr", TableRows(store, "dim_region"), <<"dci", "region_id">>, "region_id")

\* ... JOIN dim_product dp ON sf.product_id = dp.product_id
FactsWithProduct(store, rows) ==
    Join(rows, "dp", TableRows(store, "dim_product"),
         <<"sf", "product_id">>, "product_id")

\* ... JOIN dim_subcategory dsub ON dp.subcategory_id = dsub.subcategory_id
\*     JOIN dim_category dcat ON dsub.category_id = dcat.category_id
WithProductCategory(store, rows) ==
    Join(Join(rows, "dsub", TableRows(store, "dim_subcategory"),
              <<"dp", "subcategory_id">>, "subcategory_id"),
         "dcat", TableRows(store, "dim_category"),
         <<"dsub", "category_id">>, "category_id")

\* ... JOIN dim_time dt ON sf.time_id = dt.time_id
FactsWithTime(store, rows) ==
    Join(rows, "dt", TableRows(store, "dim_time"), <<"sf", "time_id">>, "time_id")

\* FROM sales_facts sf
Facts(store) ==
    LET table == TableRows(store, "sales_facts")
    IN  [i \in 1..Len(table) |-> ("sf" :> table[i])]

\* 1. sales by region (lines 95-104 and 106-117); region_name is
\* dc.region_name in the star text and dr.region_name in the snowflake text
RegionRows(joined, region_name) ==
    LET groups == GroupBy(joined, <<region_name>>)
    IN  OrderBy([i \in 1..Len(groups) |->
                    [region_name |-> Value(groups[i][1], region_name),
                     total_sales |-> Sum(groups[i], Amount),
                     transaction_count |-> Len(groups[i]),
                     avg_transaction |-> Avg(groups[i], Amount)]],
                "total_sales", "DESC")

StarQuery1(store) ==
    RegionRows(FactsWithCustomer(store, Facts(store)), <<"dc", "region_name">>)

\* Mutant of SnowflakeQuery1: the hop through dim_city left out, the
\* customer's city_id taken for a region_id.
SnowflakeQuery1SkipsCity(store) ==
    RegionRows(Join(FactsWithCustomer(store, Facts(store)),
                    "dr", TableRows(store, "dim_region"),
                    <<"dc", "city_id">>, "region_id"),
               <<"dr", "region_name">>)

SnowflakeQuery1(store) ==
    RegionRows(WithCustomerRegion(store, FactsWithCustomer(store, Facts(store))),
               <<"dr", "region_name">>)

\* 2. top products (lines 124-133 and 136-147); category_name is
\* dp.category_name in the star text and dcat.category_name in the other
ProductRows(joined, category_name) ==
    LET groups == GroupBy(joined, << <<"dp", "product_id">>, <<"dp", "product_name">>,
                                     category_name >>)
    IN  Limit(OrderBy([i \in 1..Len(groups) |->
                          [product_name |-> groups[i][1].dp.product_name,
                           category_name |-> Value(groups[i][1], category_name),
                           total_sales |-> Sum(groups[i], Amount),
                           total_quantity |-> Sum(groups[i], Quantity)]],
                      "total_sales", "DESC"),
              TopProductsLimit)

StarQuery2(store) ==
    ProductRows(FactsWithProduct(store, Facts(store)), <<"dp", "category_name">>)

SnowflakeQuery2(store) ==
    ProductRows(WithProductCategory(store, FactsWithProduct(store, Facts(store))),
                <<"dcat", "category_name">>)

\* 3. sales by month of 2023 (lines 155-164 and 167-176): one text for both
MonthlyTrend(store) ==
    LET rows == SelectSeq(FactsWithTime(store, Facts(store)),
                          LAMBDA r : r.dt.year = 2023)
        groups == GroupBy(rows, << <<"dt", "month">>, <<"dt", "month_name">> >>)
    IN  OrderBy([i \in 1..Len(groups) |->
                    [month |-> groups[i][1].dt.month,
                     month_name |-> groups[i][1].dt.month_name,
                     total_sales |-> Sum(groups[i], Amount),
                     transaction_count |-> Len(groups[i])]],
                "month", "ASC")

StarQuery3(store) == MonthlyTrend(store)

SnowflakeQuery3(store) == MonthlyTrend(store)

\* 4. salespeople (lines 184-194 and 197-208); region_name is
\* ds.region_name in the star text and dr.region_name in the other
SalespersonRows(joined, region_name) ==
    LET groups == GroupBy(joined, << <<"ds", "salesperson_id">>,
                                     <<"ds", "salesperson_name">>, region_name >>)
    IN  Limit(OrderBy([i \in 1..Len(groups) |->
                          [salesperson_name |-> groups[i][1].ds.salesperson_name,
                           region_name |-> Value(groups[i][1], region_name),
                           total_sales |-> Sum(groups[i], Amount),
                           deals_count |-> Len(groups[i]),
                           avg_deal_size |-> Avg(groups[i], Amount)]],
                      "total_sales", "DESC"),
              TopSalespeopleLimit)

FactsWithSalesperson(store, rows) ==
    Join(rows, "ds", TableRows(store, "dim_salesperson"),
         <<"sf", "salesperson_id">>, "salesperson_id")

StarQuery4(store) ==
    SalespersonRows(FactsWithSalesperson(store, Facts(store)), <<"ds", "region_name">>)

SnowflakeQuery4(store) ==
    SalespersonRows(Join(FactsWithSalesperson(store, Facts(store)),
                         "dr", TableRows(store, "dim_region"),
                         <<"ds", "region_id">>, "region_id"),
                    <<"dr", "region_name">>)

\* 5. category x region x quarter x year (lines 216-232 and 235-255)
ComplexRows(joined, category_name, region_name) ==
    LET rows == SelectSeq(joined, LAMBDA r : r.dt.year \in {2023, 2024})
        groups == SelectSeq(GroupBy(rows, << category_name, region_name,
                                             <<"dt", "quarter">>, <<"dt", "year">> >>),
                            LAMBDA g : Sum(g, Amount) > 10000 * CentsPerUnit)
    IN  OrderBy([i \in 1..Len(groups) |->
                    [category_name |-> Value(groups[i][1], category_name),
                     region_name |-> Value(groups[i][1], region_name),
                     quarter |-> groups[i][1].dt.quarter,
                     year |-> groups[i][1].dt.year,
                     total_sales |-> Sum(groups[i], Amount),
                     total_quantity |-> Sum(groups[i], Quantity),
                     avg_discount |-> Avg(groups[i], Discount),
                     unique_customers |->
                        Cardinality({groups[i][k].sf.customer_id :
                                        k \in 1..Len(groups[i])})]],
                "total_sales", "DESC")

StarQuery5(store) ==
    ComplexRows(FactsWithTime(store,
                    FactsWithCustomer(store,
                        FactsWithProduct(store, Facts(store)))),
                <<"dp", "category_name">>, <<"dc", "region_name">>)

SnowflakeQuery5(store) ==
    ComplexRows(FactsWithTime(store,
                    WithCustomerRegion(store,
                        FactsWithCustomer(store,
                            WithProductCategory(store,
                                FactsWithProduct(store, Facts(store)))))),
                <<"dcat", "category_name">>, <<"dr", "region_name">>)

QueryIds == 1..5

StarQuery(q, store) ==
    CASE q = 1 -> StarQuery1(store)
      [] q = 2 -> StarQuery2(store)
      [] q = 3 -> StarQuery3(store)
      [] q = 4 -> StarQuery4(store)
      [] q = 5 -> StarQuery5(store)

SnowflakeQuery(q, store) ==
    CASE q = 1 -> SnowflakeQuery1(store)
      [] q = 2 -> SnowflakeQuery2(store)
      [] q = 3 -> SnowflakeQuery3(store)
      [] q = 4 -> SnowflakeQuery4(store)
      [] q = 5 -> SnowflakeQuery5(store)

\* The tables a query text names; cursor.execute raises when one is missing.
StarQueryTables(q) ==
    CASE q = 1 -> {"sales_facts", "dim_customer"}
      [] q = 2 -> {"sales_facts", "dim_product"}
      [] q = 3 -> {"sales_facts", "dim_time"}
      [] q = 4 -> {"sales_facts", "dim_salesperson"}
      [] q = 5 -> {"sales_facts", "dim_product", "dim_customer", "dim_time"}

SnowflakeQueryTables(q) ==
    CASE q = 1 -> {"sales_facts", "dim_customer", "dim_city", "dim_region"}
      [] q = 2 -> {"sales_facts", "dim_product", "dim_subcategory", "dim_category"}
      [] q = 3 -> {"sales_facts", "dim_time"}
      [] q = 4 -> {"sales_facts", "dim_salesperson", "dim_region"}
      [] q = 5 -> {"sales_facts", "dim_product", "dim_subcategory", "dim_category",
                   "dim_customer", "dim_city", "dim_region", "dim_time"}

(***************************************************************************)
(* State.                                                                  *)
(***************************************************************************)
VARIABLES
    gen,      \* the running generator (generate_data.py)
    flat,     \* the ten flat files under data/
    db,       \* db[b]: the store at builder b's db_path
    run,      \* run[b]: the running main() of builder b
    built,    \* built[b]: db[b] is as a main() that raised nothing left it
    first,    \* first[b]: the tables after the first such main(), if taken
    cmp,      \* the running main() of the comparator
    budget    \* entry points that may still be started

vars == <<gen, flat, db, run, built, first, cmp, budget>>


\* builder = StarSchemaBuilder(): conn is None (star_schema.py:12-14, 223)
NewRun ==
    [pc |-> "connect", conn |-> "None", steps |-> <<>>, raised |-> "none",
     printed |-> FALSE, disconnects |-> 0, closes |-> 0, exit |-> "running",
     faulted |-> FALSE, rebuild |-> FALSE, after |-> "none"]

IdleRun == [NewRun EXCEPT !.pc = "idle"]

\* comparator = PerformanceComparator() (performance_comparison.py:15-18, 426)
\* No statistics shown yet.
NoStatistics == [shown |-> FALSE, star_wins |-> 0, snowflake_wins |-> 0]

NewComparator ==
    [pc |-> "run_performance_tests", star_conn |-> "None",
     snowflake_conn |-> "None", results |-> <<>>, exit |-> "running",
     error |-> "none", calls |-> 0, returned |-> <<>>, clock |-> <<>>,
     printed |-> NoStatistics, table |-> NoStatistics]

Idle == (\A b \in Builders : run[b].pc = "idle") /\ cmp.pc = "idle"

(***************************************************************************)
(* Flat files the builders may find under data/: what the generator wrote, *)
(* or that with one file edited by hand afterwards.                        *)
(***************************************************************************)
(* The generator's entry point (generate_data.py:193-234) and the loop of  *)
(* generate_time_data (lines 138-162), one iteration a step.               *)
(***************************************************************************)
NoGenerator ==
    [pc |-> "idle", py |-> <<>>, np |-> <<>>, current_date |-> start_date,
     time_id |-> 1, time_data |-> <<>>]

\* save_data_to_csv (lines 193-231): the six generate_ calls and the ten
\* to_csv calls.
SaveDataToCsv ==
    /\ gen.pc = "save_data_to_csv"
    /\ flat' = save_data_to_csv(gen.py, gen.np)
    /\ gen' = [gen EXCEPT !.pc = "done"]
    /\ UNCHANGED <<db, run, built, first, cmp, budget>>

\* The process of the generator is gone.
GeneratorReturn ==
    /\ gen.pc = "done"
    /\ gen' = NoGenerator
    /\ UNCHANGED <<flat, db, run, built, first, cmp, budget>>

\* Someone removes flat files while no entry point runs: flat is a function
\* on the files that are there.
RemoveFlatFiles(files) ==
    /\ Idle
    /\ SourceFiles \subseteq DOMAIN flat
    /\ flat' = [file \in DOMAIN flat \ files |-> flat[file]]
    /\ UNCHANGED <<gen, db, run, built, first, cmp, budget>>

\* while current_date <= end_date: append, current_date += timedelta(days=1),
\* time_id += 1 (lines 147-160)
TimeLoop ==
    /\ gen.pc = "generate_time_data"
    /\ DateLeq(gen.current_date, end_date)
    /\ gen' = [gen EXCEPT
                 !.time_data = Append(@, TimeRecord(gen.time_id, gen.current_date)),
                 !.current_date = AddDays(@, 1),
                 !.time_id = @ + 1]
    /\ UNCHANGED <<flat, db, run, built, first, cmp, budget>>

\* return pd.DataFrame(time_data) (line 162)
TimeReturn ==
    /\ gen.pc = "generate_time_data"
    /\ ~DateLeq(gen.current_date, end_date)
    /\ gen' = [gen EXCEPT !.pc = "returned"]
    /\ UNCHANGED <<flat, db, run, built, first, cmp, budget>>

(***************************************************************************)
\* The datasets of the streams that repeat one level.
ConstantSeedDatasets ==
    {save_data_to_csv([i \in 1..PyPeriod |-> v], [i \in 1..NpPeriod |-> v]) :
        v \in RandLevels}

\* The datasets of one seed: both streams read the same periodic sequence.
SeededDatasets ==
    {save_data_to_csv(py, [i \in 1..NpPeriod |-> Draw(py, i)]) : py \in PyTapes}

ParentFiles ==
    {"countries", "regions", "cities", "categories", "subcategories", "products",
     "customers", "sales_people", "time_dimension"}

NameColumn ==
    [countries |-> "country_name", regions |-> "region_name",
     cities |-> "city_name", categories |-> "category_name",
     subcategories |-> "subcategory_name"]

\* The first row of a file removed.
WithoutFirstRow(d, file) == [d EXCEPT ![file] = Tail(@)]

\* The first row of a file repeated under the name of the last row: a key
\* that occurs twice, with two names.
WithRepeatedKey(d, file) ==
    [d EXCEPT ![file] =
        Append(@, [Head(@) EXCEPT
                      ![NameColumn[file]] = d[file][Len(d[file])][NameColumn[file]]])]

EditedDatasets ==
    {WithoutFirstRow(d, file) : d \in SeededDatasets, file \in ParentFiles}
    \cup {WithRepeatedKey(d, file) : d \in SeededDatasets, file \in DOMAIN NameColumn}

KeyColumn ==
    [countries |-> "country_id", regions |-> "region_id", cities |-> "city_id",
     categories |-> "category_id", subcategories |-> "subcategory_id",
     products |-> "product_id", customers |-> "customer_id",
     sales_people |-> "salesperson_id", time_dimension |-> "time_id"]

Keys(d, file) == {d[file][i][KeyColumn[file]] : i \in DOMAIN d[file]}

\* child file, referencing column, parent file
References ==
    {<<"regions", "country_id", "countries">>,
     <<"cities", "region_id", "regions">>,
     <<"subcategories", "category_id", "categories">>,
     <<"products", "subcategory_id", "subcategories">>,
     <<"customers", "city_id", "cities">>,
     <<"sales_people", "region_id", "regions">>,
     <<"sales_facts", "time_id", "time_dimension">>,
     <<"sales_facts", "product_id", "products">>,
     <<"sales_facts", "customer_id", "customers">>,
     <<"sales_facts", "salesperson_id", "sales_people">>}

NoDanglingReferences(d) ==
    \A ref \in References :
        \A i \in DOMAIN d[ref[1]] : d[ref[1]][i][ref[2]] \in Keys(d, ref[3])

UniqueKeys(d) ==
    \A file \in ParentFiles :
        \A i, j \in DOMAIN d[file] :
            d[file][i][KeyColumn[file]] = d[file][j][KeyColumn[file]] => i = j

(***************************************************************************)
(* The builders' entry point, main() (star_schema.py:221-235,              *)
(* snowflake_schema.py:283-297): connect, create the schema, load the      *)
(* data, print the schema; an exception of any step is caught and printed; *)
(* disconnect runs in the finally clause.                                  *)
(***************************************************************************)
\* Mutant of AfterException: the finally clause left out.
AfterExceptionSkipsFinally == "done"

\* Where control goes when a step of the try block raises: the handler
\* prints, then the finally clause runs.
AfterException == "finally"

\* Mutant of MainExit: the handler raises the exception again.
MainExitReraises(raised) == IF raised = "none" THEN "returned" ELSE "raised"

\* How main() ends: the handler swallows the exception, so main returns.
MainExit(raised) == "returned"

\* except Exception as e: print(...)
Caught(r, step, external) ==
    [r EXCEPT !.steps = Append(@, step), !.raised = step, !.printed = TRUE,
              !.pc = AfterException, !.faulted = @ \/ external]

Done(r, step, next, external) ==
    [r EXCEPT !.steps = Append(@, step), !.pc = next, !.faulted = @ \/ external]

\* Statement numbers at which a fault is tried: none, the first, the middle
\* and the last statement.
FaultPoints(n) == {0, 1, (n + 1) \div 2, n}

Rows(store) == [n \in DOMAIN store.tables |-> store.tables[n].rows]

StartMain(b) ==
    /\ Idle
    /\ budget > 0
    /\ budget' = budget - 1
    /\ run' = [run EXCEPT ![b] = [NewRun EXCEPT !.rebuild = first[b].taken,
                                               !.after = run[b].after]]
    /\ UNCHANGED <<gen, flat, db, built, first, cmp>>

\* connect (star_schema.py:16-20): os.makedirs or sqlite3.connect may raise,
\* and then conn is still None.
Connect(b, fault) ==
    /\ run[b].pc = "connect"
    /\ run' = [run EXCEPT ![b] =
                 IF fault = 0
                 THEN [Done(@, "connect", "create_schema", FALSE) EXCEPT !.conn = "open"]
                 ELSE Caught(@, "connect", TRUE)]
    /\ db' = [db EXCEPT ![b] = IF fault = 0 THEN Connected(@) ELSE @]
    /\ UNCHANGED <<gen, flat, built, first, budget, cmp>>

CreateSchema(b, fault) ==
    /\ run[b].pc = "create_schema"
    /\ LET r == create_schema(b, db[b], fault)
       IN  /\ db' = [db EXCEPT ![b] = r.store]
           /\ run' = [run EXCEPT ![b] =
                        IF r.ok THEN Done(@, "create_schema", "load_data", fault # 0)
                        ELSE Caught(@, "create_schema", fault # 0)]
    /\ built' = [built EXCEPT ![b] = FALSE]
    /\ UNCHANGED <<gen, flat, first, budget, cmp>>

\* Mutant of LoadData: both builders constructed with the star store's path.
LoadDataAtStarPath(b, fault) ==
    /\ run[b].pc = "load_data"
    /\ LET r == load_data(b, db["star"], flat, fault)
       IN  /\ db' = [db EXCEPT !["star"] = r.store]
           /\ run' = [run EXCEPT ![b] =
                        IF r.ok THEN Done(@, "load_data", "print_schema_info", fault # 0)
                        ELSE Caught(@, "load_data", fault # 0)]
    /\ built' = [built EXCEPT ![b] = FALSE]
    /\ UNCHANGED <<gen, flat, first, budget, cmp>>

LoadData(b, fault) ==
    /\ run[b].pc = "load_data"
    /\ LET r == load_data(b, db[b], flat, fault)
       IN  /\ db' = [db EXCEPT ![b] = r.store]
           /\ run' = [run EXCEPT ![b] =
                        IF r.ok THEN Done(@, "load_data", "print_schema_info", fault # 0)
                        ELSE Caught(@, "load_data", fault # 0)]
    /\ built' = [built EXCEPT ![b] = FALSE]
    /\ UNCHANGED <<gen, flat, first, budget, cmp>>

\* print_schema_info reads sqlite_master and the table_info pragma; it
\* changes nothing.
PrintSchemaInfo(b, fault) ==
    /\ run[b].pc = "print_schema_info"
    /\ run' = [run EXCEPT ![b] =
                 IF fault = 0 THEN Done(@, "print_schema_info", "finally", FALSE)
                 ELSE Caught(@, "print_schema_info", TRUE)]
    /\ UNCHANGED <<gen, flat, db, built, first, budget, cmp>>

\* finally: builder.disconnect() (star_schema.py:22-26, 234-235), after
\* which main() is over.
Disconnect(b) ==
    /\ run[b].pc = "finally"
    /\ run' = [run EXCEPT ![b] =
                 [@ EXCEPT !.disconnects = @ + 1,
                           !.closes = IF run[b].conn = "open" THEN @ + 1 ELSE @,
                           !.conn = IF @ = "open" THEN "closed" ELSE @,
                           !.pc = "done",
                           !.exit = MainExit(run[b].raised)]]
    /\ built' = [built EXCEPT ![b] = (run[b].raised = "none")]
    /\ first' = [first EXCEPT ![b] =
                   IF run[b].raised = "none" /\ ~@.taken
                   THEN [taken |-> TRUE, rows |-> Rows(db[b])]
                   ELSE @]
    /\ UNCHANGED <<gen, flat, db, budget, cmp>>

\* The process of main() is gone.
Return(b) ==
    /\ run[b].pc = "done"
    /\ run' = [run EXCEPT ![b] = [IdleRun EXCEPT !.after = run[b].raised]]
    /\ UNCHANGED <<gen, flat, db, built, first, budget, cmp>>

(***************************************************************************)
(* The comparator (performance_comparison.py).                             *)
(***************************************************************************)
QueryNames ==
    <<"Prodazhi po rehionakh", "Top-10 produktiv",
      "Trend prodazhiv po misiatsiakh 2023", "Produktyvnist prodavtsiv",
      "Kompleksnyi analiz prodazhiv">>

\* Elapsed milliseconds one measurement can give.
ClockTapes == [1..ClockPeriod -> {0, 1, 2}]

\* execute_query_with_timing (lines 24-39): the elapsed time and the first
\* rows of the result.
execute_query_with_timing(rows, elapsed, query_name) ==
    [query_name |-> query_name, execution_time_ms |-> elapsed,
     result_count |-> Len(rows), results |-> Limit(rows, ResultsKept)]

\* cursor.execute raises sqlite3.OperationalError when the query names a
\* table the store does not have.
CanExecute(store, tables) == tables \subseteq DOMAIN store.tables

\* A quotient of two times: finite (num / den), or what dividing by zero
\* gives where it gives anything.
Quotient(kind, num, den) == [kind |-> kind, num |-> num, den |-> den]

RECURSIVE QueryLoop(_, _, _, _, _, _)
\* The loop of run_performance_tests from query pair q on (lines 53-80):
\* [results, ok, error], ok false when an execution or the ratio report
\* raised.  Executions are counted from 3 (the two connects are steps 1 and
\* 2); fault > 0 makes step number fault raise.  Lines 66-71: with a
\* snowflake time above 0, ratio = star time / snowflake time, and a ratio
\* below 1 is reported as 1/ratio, which raises ZeroDivisionError when the
\* ratio is 0; the entry of that pair is then not appended.
QueryLoop(q, star, snowflake, results, clock, fault) ==
    IF q > Len(QueryNames)
    THEN [results |-> results, ok |-> TRUE, error |-> "none"]
    ELSE IF fault = 2 * q + 1 \/ ~CanExecute(star, StarQueryTables(q))
    THEN [results |-> results, ok |-> FALSE, error |-> "execute"]
    ELSE IF fault = 2 * q + 2 \/ ~CanExecute(snowflake, SnowflakeQueryTables(q))
    THEN [results |-> results, ok |-> FALSE, error |-> "execute"]
    ELSE LET star_time == Draw(clock, 2 * q - 1)
             snowflake_time == Draw(clock, 2 * q)
             star_result ==
                 execute_query_with_timing(StarQuery(q, star), star_time,
                                           QueryNames[q])
             snowflake_result ==
                 execute_query_with_timing(SnowflakeQuery(q, snowflake),
                                           snowflake_time, QueryNames[q])
             ratio == Quotient("finite", star_time, snowflake_time)
         IN  IF snowflake_time > 0 /\ ratio.num < ratio.den /\ ratio.num = 0
             THEN [results |-> results, ok |-> FALSE, error |-> "ZeroDivisionError"]
             ELSE
             QueryLoop(q + 1, star, snowflake,
                       Append(results,
                              [query_name |-> QueryNames[q],
                               star_time_ms |-> star_result.execution_time_ms,
                               snowflake_time_ms |->
                                   snowflake_result.execution_time_ms,
                               star_results |-> star_result.results,
                               snowflake_results |-> snowflake_result.results]),
                       clock, fault)

\* Mutant of run_performance_tests: the entries collected in a list made
\* for the call.
run_performance_testsOnNewList(c, star, snowflake, clock, fault) ==
    IF fault = 1 THEN [c EXCEPT !.exit = "raised", !.error = "connect"]
    ELSE IF fault = 2
    THEN [c EXCEPT !.star_conn = "open", !.exit = "raised", !.error = "connect"]
    ELSE LET loop == QueryLoop(1, star, snowflake, <<>>, clock, fault)
         IN  IF loop.ok
             THEN [c EXCEPT !.results = loop.results, !.star_conn = "closed",
                            !.snowflake_conn = "closed", !.exit = "returned",
                            !.calls = @ + 1, !.returned = loop.results,
                            !.clock = clock]
             ELSE [c EXCEPT !.results = loop.results, !.star_conn = "open",
                            !.snowflake_conn = "open", !.exit = "raised",
                            !.error = loop.error, !.clock = clock]

\* run_performance_tests (lines 41-85) on comparator c: the comparator
\* after the call.  Nothing catches an exception here or in main(), so a
\* connect or an execution that raises ends the run at once, with the
\* connections as they are.
run_performance_tests(c, star, snowflake, clock, fault) ==
    IF fault = 1 THEN [c EXCEPT !.exit = "raised", !.error = "connect"]
    ELSE IF fault = 2
    THEN [c EXCEPT !.star_conn = "open", !.exit = "raised", !.error = "connect"]
    ELSE LET loop == QueryLoop(1, star, snowflake, c.results, clock, fault)
         IN  IF loop.ok
             THEN [c EXCEPT !.results = loop.results, !.star_conn = "closed",
                            !.snowflake_conn = "closed", !.exit = "returned",
                            !.calls = @ + 1, !.returned = loop.results,
                            !.clock = clock]
             ELSE [c EXCEPT !.results = loop.results, !.star_conn = "open",
                            !.snowflake_conn = "open", !.exit = "raised",
                            !.error = loop.error, !.clock = clock]

StartComparison ==
    /\ Idle
    /\ budget > 0
    /\ budget' = budget - 1
    /\ cmp' = NewComparator
    /\ UNCHANGED <<gen, flat, db, run, built, first>>

\* r > 1; a comparison with NaN is false
ExceedsOne(r) ==
    CASE r.kind = "finite" -> r.num > r.den
      [] r.kind = "inf" -> TRUE
      [] r.kind = "nan" -> FALSE

\* s / n if n > 0 else 0 (lines 394 and 418), s the snowflake time and n
\* the star time
GuardedRatio(snowflake_time, star_time) ==
    IF star_time > 0 THEN Quotient("finite", snowflake_time, star_time)
    ELSE Quotient("finite", 0, 1)

\* sum(1 for r in ratios if r > 1)
CountExceedingOne(ratios) == Cardinality({i \in DOMAIN ratios : ExceedsOne(ratios[i])})

\* print_detailed_results (lines 384-422): the comparator after the call.
\* Its loop (lines 390-404) raises ZeroDivisionError at 1/ratio when a
\* ratio is 0.
print_detailed_results(c) ==
    IF \E i \in DOMAIN c.results :
          LET ratio == GuardedRatio(c.results[i].snowflake_time_ms,
                                    c.results[i].star_time_ms)
          IN  ~ExceedsOne(ratio) /\ ratio.num = 0
    THEN [c EXCEPT !.exit = "raised", !.error = "ZeroDivisionError"]
    ELSE LET ratios == [i \in DOMAIN c.results |->
                           GuardedRatio(c.results[i].snowflake_time_ms,
                                        c.results[i].star_time_ms)]
             star_wins == CountExceedingOne(ratios)
         IN  [c EXCEPT !.printed =
                 [shown |-> TRUE, star_wins |-> star_wins,
                  snowflake_wins |-> Len(c.results) - star_wins]]

\* create_performance_visualization (lines 262-382): the comparator after
\* the call; without results it prints a notice and returns.  Line 310,
\* df_results['snowflake_time_ms'] / df_results['star_time_ms'], divides two
\* float columns, which raises nothing.
create_performance_visualization(c) ==
    IF c.results = <<>> THEN c
    ELSE LET ratios == [i \in DOMAIN c.results |->
                           LET snowflake_time == c.results[i].snowflake_time_ms
                               star_time == c.results[i].star_time_ms
                           IN  IF star_time # 0
                               THEN Quotient("finite", snowflake_time, star_time)
                               ELSE IF snowflake_time > 0 THEN Quotient("inf", 1, 0)
                               ELSE Quotient("nan", 0, 0)]
             star_wins == CountExceedingOne(ratios)
         IN  [c EXCEPT !.table =
                 [shown |-> TRUE, star_wins |-> star_wins,
                  snowflake_wins |-> Len(ratios) - star_wins]]

\* sqlite3.connect (line 22) creates the file when there is none.
RunPerformanceTests(clock, fault) ==
    /\ cmp.pc = "run_performance_tests"
    /\ LET c == run_performance_tests(cmp, db["star"], db["snowflake"], clock, fault)
       IN  cmp' = [c EXCEPT !.pc = IF c.exit = "raised" THEN "done"
                                   ELSE "print_detailed_results",
                            !.exit = IF c.exit = "raised" THEN "raised" ELSE "running"]
    /\ db' = [b \in Builders |->
                IF fault = 1 \/ (fault = 2 /\ b = "snowflake") THEN db[b]
                ELSE Connected(db[b])]
    /\ UNCHANGED <<gen, flat, run, built, first, budget>>

\* A caller that keeps one PerformanceComparator calls
\* run_performance_tests on it again.
CallRunPerformanceTests(clock, fault) ==
    /\ cmp.pc = "run_performance_tests"
    /\ budget > 0
    /\ budget' = budget - 1
    /\ LET c == run_performance_tests(cmp, db["star"], db["snowflake"], clock, fault)
       IN  cmp' = [c EXCEPT !.pc = IF c.exit = "raised" THEN "done"
                                   ELSE "run_performance_tests"]
    /\ db' = [b \in Builders |->
                IF fault = 1 \/ (fault = 2 /\ b = "snowflake") THEN db[b]
                ELSE Connected(db[b])]
    /\ UNCHANGED <<gen, flat, run, built, first>>

\* main(): comparator.print_detailed_results() (line 432)
PrintDetailedResults ==
    /\ cmp.pc = "print_detailed_results"
    /\ LET c == print_detailed_results(cmp)
       IN  cmp' = [c EXCEPT !.pc = IF c.exit = "raised" THEN "done"
                                   ELSE "create_performance_visualization"]
    /\ UNCHANGED <<gen, flat, db, run, built, first, budget>>

\* main(): comparator.create_performance_visualization() (line 435), then
\* return results
CreatePerformanceVisualization ==
    /\ cmp.pc = "create_performance_visualization"
    /\ cmp' = [create_performance_visualization(cmp) EXCEPT
                 !.pc = "done", !.exit = "returned"]
    /\ UNCHANGED <<gen, flat, db, run, built, first, budget>>

\* The process of the comparator's main() is gone.
ComparisonReturn ==
    /\ cmp.pc = "done"
    /\ cmp' = [NewComparator EXCEPT !.pc = "idle"]
    /\ UNCHANGED <<gen, flat, db, run, built, first, budget>>

InitStores ==
    /\ db = [b \in Builders |-> NoStore]
    /\ run = [b \in Builders |-> IdleRun]
    /\ built = [b \in Builders |-> FALSE]
    /\ first = [b \in Builders |-> [taken |-> FALSE, rows |-> <<>>]]
    /\ cmp = [NewComparator EXCEPT !.pc = "idle"]

\* The whole system, with faults from outside the program at any step.
Init ==
    /\ gen = NoGenerator
    /\ flat \in ConstantSeedDatasets
    /\ InitStores
    /\ budget = MaxRuns

Next ==
    \/ \E b \in Builders :
          \/ StartMain(b)
          \/ \E fault \in {0, 1} : Connect(b, fault)
          \/ \E fault \in FaultPoints(Len(SchemaStatements(b))) : CreateSchema(b, fault)
          \/ \E fault \in FaultPoints(Len(Frames(b, flat))) : LoadData(b, fault)
          \/ \E fault \in {0, 1} : PrintSchemaInfo(b, fault)
          \/ Disconnect(b)
          \/ Return(b)
    \/ StartComparison
    \/ \E clock \in ClockTapes, fault \in FaultPoints(2 + 2 * Len(QueryNames)) \cup {2} :
          RunPerformanceTests(clock, fault)
    \/ PrintDetailedResults
    \/ CreatePerformanceVisualization
    \/ ComparisonReturn

Spec == Init /\ [][Next]_vars

\* Both builders run once, without faults, over any flat files.
InitData ==
    /\ gen = NoGenerator
    /\ flat \in GeneratedDatasets \cup EditedDatasets
    /\ InitStores
    /\ budget = Cardinality(Builders)

NextData ==
    \E b \in Builders :
        \/ StartMain(b)
        \/ Connect(b, 0)
        \/ CreateSchema(b, 0)
        \/ LoadData(b, 0)
        \/ PrintSchemaInfo(b, 0)
        \/ Disconnect(b)
        \/ Return(b)

SpecData == InitData /\ [][NextData]_vars

\* The generator runs once, on any two streams.
InitGen ==
    /\ \E py \in PyTapes, np \in NpTapes :
          gen = [NoGenerator EXCEPT !.pc = "save_data_to_csv", !.py = py, !.np = np]
    /\ flat = [file \in {} |-> <<>>]    \* nothing under data/ yet
    /\ InitStores
    /\ budget = 0

NextGen == SaveDataToCsv \/ GeneratorReturn

SpecGen == InitGen /\ [][NextGen]_vars

\* generate_time_data runs once; the scheduler lets it run on.
InitTime ==
    /\ gen = [NoGenerator EXCEPT !.pc = "generate_time_data"]
    /\ flat = [file \in {} |-> <<>>]    \* nothing under data/ yet
    /\ InitStores
    /\ budget = 0

NextTime == TimeLoop \/ TimeReturn

SpecTime == InitTime /\ [][NextTime]_vars /\ WF_vars(NextTime)

(***************************************************************************)
(* Properties.                                                             *)
(***************************************************************************)
\* Both stores are as a main() that raised nothing left them.
BothBuilt == built["star"] /\ built["snowflake"]

\* What the generator guarantees of its files.
GeneratorLike(d) == UniqueKeys(d) /\ NoDanglingReferences(d)

\* How often each row occurs in a result.
Bag(rows) == [x \in Range(rows) |-> Cardinality({i \in DOMAIN rows : rows[i] = x})]

SameRows(a, b) == Range(a) = Range(b) /\ Bag(a) = Bag(b)

\* C1: with both stores built from flat files as the generator writes them
\* (keys unique, no dangling reference), each of the five query pairs gives
\* the same rows on the star store as on the snowflake store, repetitions
\* counted, whatever their order.
C1_QueryPairsAgree ==
    (BothBuilt /\ GeneratorLike(flat)) =>
        \A q \in QueryIds :
            SameRows(StarQuery(q, db["star"]), SnowflakeQuery(q, db["snowflake"]))

\* C1 witness: both stores built from generator-like files, every query of
\* the suite returns rows, and the limit of the top-products query cuts
\* products off.
C1_Witness ==
    /\ BothBuilt
    /\ GeneratorLike(flat)
    /\ \A q \in QueryIds : StarQuery(q, db["star"]) # <<>>
    /\ Cardinality({flat.sales_facts[i].product_id : i \in DOMAIN flat.sales_facts})
         > TopProductsLimit

(***************************************************************************)
(* Referential integrity of a built store.                                 *)
(***************************************************************************)
\* The rows of a table that hold value in column.
RowsWith(store, table, column, value) ==
    {i \in DOMAIN TableRows(store, table) : TableRows(store, table)[i][column] = value}

Resolves(store, row, fk) ==
    RowsWith(store, fk.ref_table, fk.ref_column, row[fk.column]) # {}

\* C2: after a completed build of either store, every row of sales_facts
\* has time_id, product_id, customer_id and salesperson_id each equal to the
\* key of a row of dim_time, dim_product, dim_customer and dim_salesperson of
\* that store.
C2_FactKeysResolve ==
    \A b \in Builders :
        built[b] =>
            \A i \in DOMAIN TableRows(db[b], "sales_facts") :
                \A fk \in FactForeignKeys :
                    Resolves(db[b], TableRows(db[b], "sales_facts")[i], fk)

(***************************************************************************)
(* Denormalisation: the star dimensions against the snowflake chains.      *)
(***************************************************************************)
\* The rows of the snowflake table reached from row by following column.
Parents(store, row, column, table) ==
    {TableRows(store, table)[i] : i \in RowsWith(store, table, column, row[column])}

\* product -> dim_subcategory -> dim_category
ProductChainNames(store, product_id) ==
    {[subcategory_name |-> s.subcategory_name, category_name |-> c.category_name] :
        <<s, c>> \in
            {<<s, c>> \in Range(TableRows(store, "dim_subcategory"))
                            \X Range(TableRows(store, "dim_category")) :
                \E p \in Range(TableRows(store, "dim_product")) :
                    /\ p.product_id = product_id
                    /\ s \in Parents(store, p, "subcategory_id", "dim_subcategory")
                    /\ c \in Parents(store, s, "category_id", "dim_category")}}

\* region -> dim_country, from a row that holds a region_id
RegionChainNames(store, row) ==
    {[region_name |-> r.region_name, country_name |-> k.country_name] :
        <<r, k>> \in
            {<<r, k>> \in Range(TableRows(store, "dim_region"))
                            \X Range(TableRows(store, "dim_country")) :
                /\ r \in Parents(store, row, "region_id", "dim_region")
                /\ k \in Parents(store, r, "country_id", "dim_country")}}

\* customer -> dim_city -> dim_region -> dim_country
CustomerChainNames(store, customer_id) ==
    UNION {{[city_name |-> c.city_name] @@ names : names \in RegionChainNames(store, c)} :
              c \in {c \in Range(TableRows(store, "dim_city")) :
                        \E p \in Range(TableRows(store, "dim_customer")) :
                            /\ p.customer_id = customer_id
                            /\ c \in Parents(store, p, "city_id", "dim_city")}}

\* salesperson -> dim_region -> dim_country
SalespersonChainNames(store, salesperson_id) ==
    UNION {RegionChainNames(store, p) :
              p \in {p \in Range(TableRows(store, "dim_salesperson")) :
                        p.salesperson_id = salesperson_id}}

\* The columns of a record.
Only(row, columns) == [c \in columns |-> row[c]]

\* C3: with both stores built from the same flat files, the names embedded
\* in every row of the star dim_product, dim_customer and dim_salesperson
\* are names reached in the snowflake store from the row of the same id,
\* along product -> subcategory -> category, customer -> city -> region ->
\* country and salesperson -> region -> country; where the keys of the flat
\* files are unique the chain reaches these names and no others.
C3_StarNamesFollowChain ==
    BothBuilt =>
        LET star == db["star"]
            snow == db["snowflake"]
            Agree(names, reached) ==
                names \in reached /\ (UniqueKeys(flat) => reached = {names})
        IN  /\ \A p \in Range(TableRows(star, "dim_product")) :
                  Agree(Only(p, {"subcategory_name", "category_name"}),
                        ProductChainNames(snow, p.product_id))
            /\ \A c \in Range(TableRows(star, "dim_customer")) :
                  Agree(Only(c, {"city_name", "region_name", "country_name"}),
                        CustomerChainNames(snow, c.customer_id))
            /\ \A p \in Range(TableRows(star, "dim_salesperson")) :
                  Agree(Only(p, {"region_name", "country_name"}),
                        SalespersonChainNames(snow, p.salesperson_id))

\* C3 witness: both stores built from files with unique keys, each of the
\* three star dimensions has rows, and the products are of more than one
\* category.
C3_Witness ==
    /\ BothBuilt
    /\ UniqueKeys(flat)
    /\ TableRows(db["star"], "dim_customer") # <<>>
    /\ TableRows(db["star"], "dim_salesperson") # <<>>
    /\ Cardinality({p.category_name : p \in Range(TableRows(db["star"], "dim_product"))}) > 1

(***************************************************************************)
(* Building twice.                                                         *)
(***************************************************************************)
\* A main() of builder b is over and no fault from outside hit it.
CleanRunOver(b) == run[b].pc = "done" /\ ~run[b].faulted

\* C4: a build that follows a completed build of the same store over the
\* same flat files, whatever happened to the store in between, raises
\* nothing and leaves every table of the store with the rows the first
\* completed build left, for the star and for the snowflake builder.
C4_RebuildSameRows ==
    \A b \in Builders :
        (CleanRunOver(b) /\ run[b].rebuild) =>
            /\ run[b].raised = "none"
            /\ Rows(db[b]) = first[b].rows

\* C4 witness: the second of two builds of the star store that ran one
\* after the other is over, and the first left rows in sales_facts.
C4_Witness ==
    /\ CleanRunOver("star")
    /\ run["star"].rebuild
    /\ first["star"].rows["sales_facts"] # <<>>
    /\ budget = MaxRuns - 2

(***************************************************************************)
(* What the inner joins of the star load keep.                             *)
(***************************************************************************)
\* The rows of a flat file that hold value in column.
FlatWith(d, file, column, value) ==
    {d[file][i] : i \in {i \in DOMAIN d[file] : d[file][i][column] = value}}

\* region -> country resolves from a row that holds a region_id
RegionResolves(d, row) ==
    \E r \in FlatWith(d, "regions", "region_id", row.region_id) :
        FlatWith(d, "countries", "country_id", r.country_id) # {}

\* The whole parent chain of a row of products.csv, customers.csv or
\* sales_people.csv resolves.
ChainResolves(d, file, row) ==
    CASE file = "products" ->
            \E s \in FlatWith(d, "subcategories", "subcategory_id", row.subcategory_id) :
                FlatWith(d, "categories", "category_id", s.category_id) # {}
      [] file = "customers" ->
            \E c \in FlatWith(d, "cities", "city_id", row.city_id) :
                RegionResolves(d, c)
      [] file = "sales_people" -> RegionResolves(d, row)

StarDimensionOf ==
    [products |-> "dim_product", customers |-> "dim_customer",
     sales_people |-> "dim_salesperson"]

\* C5: the star load validates nothing.  With unique parent ids, a main()
\* of the star builder raised nothing, each of dim_product, dim_customer
\* and dim_salesperson has exactly one row for every flat row whose whole
\* parent chain resolves and none for a flat row with a parent missing at
\* any hop, and sales_facts holds every row of sales_facts.csv, those that
\* reference a dropped row included.
C5_InnerJoinDropsSilently ==
    (run["star"].pc = "done" /\ UniqueKeys(flat)) =>
        /\ run["star"].raised = "none"
        /\ \A file \in DOMAIN StarDimensionOf :
              /\ \A row \in Range(flat[file]) :
                    Cardinality(RowsWith(db["star"], StarDimensionOf[file],
                                         KeyColumn[file], row[KeyColumn[file]]))
                      = IF ChainResolves(flat, file, row) THEN 1 ELSE 0
              /\ \A row \in Range(TableRows(db["star"], StarDimensionOf[file])) :
                    row[KeyColumn[file]] \in Keys(flat, file)
        /\ TableRows(db["star"], "sales_facts") = flat.sales_facts

\* C5 witness: a star build is over on files with unique keys in which one
\* product has lost its parent and another has not, and a sale references
\* the product that dim_product does not have.
C5_Witness ==
    /\ run["star"].pc = "done"
    /\ UniqueKeys(flat)
    /\ TableRows(db["star"], "dim_product") # <<>>
    /\ \E f \in Range(TableRows(db["star"], "sales_facts")) :
          /\ f.product_id \in Keys(flat, "products")
          /\ ~Resolves(db["star"], f, FK("product_id", "dim_product", "product_id"))

(***************************************************************************)
(* What the DDL of a builder is worth after the load.                      *)
(***************************************************************************)
Indexes(b) == IF b = "star" THEN StarIndexes ELSE SnowflakeIndexes

\* C6: after a completed build the store has the indexes of its builder:
\* the star store on the four foreign keys of sales_facts and on
\* dim_time(date), dim_time(year), dim_product(category_name),
\* dim_customer(city_name) and dim_customer(region_name), the snowflake
\* store on the fact foreign keys and the join-path columns.
C6_IndexesPresent ==
    \A b \in Builders : built[b] => Range(Indexes(b)) \subseteq db[b].indexes

\* C7: after a completed star build, sales_facts is the table the DDL
\* declares: primary key sale_id, and foreign keys from time_id,
\* product_id, customer_id and salesperson_id to the four dimensions.
C7_FactTableAsDeclared ==
    built["star"] =>
        /\ db["star"].tables["sales_facts"].primary_key = "sale_id"
        /\ db["star"].tables["sales_facts"].foreign_keys = FactForeignKeys

(***************************************************************************)
(* The entry points and their connections.                                 *)
(***************************************************************************)
Steps == <<"connect", "create_schema", "load_data", "print_schema_info">>

\* C8: on every path of a builder's main(), disconnect runs exactly once,
\* after every other step: no disconnect while a step is still to run, one
\* when main() is over; a connection that was opened is then closed, by one
\* close; and when connect itself raised, conn is still None, nothing was
\* closed, and the disconnect raised nothing.
C8_DisconnectOnceLast ==
    \A b \in Builders :
        /\ run[b].pc \in Range(Steps) \cup {"finally"} =>
              run[b].disconnects = 0 /\ run[b].closes = 0
        /\ run[b].pc = "done" =>
              /\ run[b].disconnects = 1
              /\ IF run[b].raised = "connect"
                 THEN run[b].conn = "None" /\ run[b].closes = 0
                 ELSE run[b].conn = "closed" /\ run[b].closes = 1
              /\ run[b].exit = "returned"

\* C8 witness: a main() of the star builder whose connect raised is over,
\* after its one disconnect.
C8_Witness ==
    /\ run["star"].pc = "done"
    /\ run["star"].raised = "connect"
    /\ run["star"].conn = "None"
    /\ run["star"].disconnects = 1

\* C9: when a comparison run is over, whether all five query pairs
\* completed or an execution raised, neither of the connections it opened
\* is still open.
C9_ConnectionsClosed ==
    cmp.pc = "done" => cmp.star_conn # "open" /\ cmp.snowflake_conn # "open"

\* C10 as stated: when a step of a builder's main() fails, the steps after
\* it are not executed and main() passes the error on to its caller.
C10_ErrorReachesCaller ==
    \A b \in Builders :
        (run[b].pc = "done" /\ run[b].raised # "none") =>
            /\ run[b].steps[Len(run[b].steps)] = run[b].raised
            /\ run[b].exit = "raised"

\* C10 amended: when a step of a builder's main() fails, the steps after it
\* are not executed, the handler of main() prints the error, disconnect
\* runs, and main() returns to its caller as it does after a build that
\* succeeded, without an exception.
C10_ErrorPrintedNotRaised ==
    \A b \in Builders :
        /\ (run[b].pc \in {"finally", "done"} /\ run[b].raised # "none") =>
              /\ run[b].steps[Len(run[b].steps)] = run[b].raised
              /\ \A i \in 1..Len(run[b].steps) : run[b].steps[i] = Steps[i]
              /\ run[b].printed
        /\ run[b].pc = "done" => run[b].exit = "returned"

\* C10 witness: a main() of the snowflake builder is over whose schema
\* creation raised; load_data and print_schema_info did not run.
C10_Witness ==
    /\ run["snowflake"].pc = "done"
    /\ run["snowflake"].raised = "create_schema"
    /\ run["snowflake"].steps = <<"connect", "create_schema">>
    /\ run["snowflake"].printed

(***************************************************************************)
(* The statistics of a comparison.                                         *)
(***************************************************************************)
\* The queries of the results in which the star time is the smaller.
StarFaster(results) ==
    {i \in DOMAIN results : results[i].star_time_ms < results[i].snowflake_time_ms}

SnowflakeFaster(results) ==
    {i \in DOMAIN results : results[i].snowflake_time_ms < results[i].star_time_ms}

WinsAsTimed(statistics, results) ==
    statistics.shown =>
        /\ statistics.star_wins = Cardinality(StarFaster(results))
        /\ statistics.snowflake_wins = Cardinality(SnowflakeFaster(results))

\* C11: whatever the timings, ties and zeros included, the wins that
\* print_detailed_results prints and those of the statistics table of
\* create_performance_visualization are, for the star variant, the number of
\* queries with star_time_ms < snowflake_time_ms and, for the snowflake
\* variant, the number with snowflake_time_ms < star_time_ms.
C11_WinsCountFasterQueries ==
    WinsAsTimed(cmp.printed, cmp.results) /\ WinsAsTimed(cmp.table, cmp.results)

(***************************************************************************)
(* Building after a failed build.                                          *)
(***************************************************************************)
\* The store after one build of builder b that starts without a store and
\* raises nothing.
FreshBuild(b) ==
    load_data(b, create_schema(b, Connected(NoStore), 0).store, flat, 0).store

\* C12: a main() of a builder that follows a main() of that builder which
\* failed at any step, over the same flat files, raises nothing unless a
\* fault from outside hits it, and when it raises nothing every table of
\* the store has the rows that one build starting without a store gives.
C12_RebuildAfterFailure ==
    \A b \in Builders :
        (run[b].pc = "done" /\ run[b].after # "none") =>
            /\ ~run[b].faulted => run[b].raised = "none"
            /\ run[b].raised = "none" => Rows(db[b]) = Rows(FreshBuild(b))

\* C12 witness: a main() of the star builder has completed after one whose
\* load_data failed, and sales_facts has rows.
C12_Witness ==
    /\ run["star"].pc = "done"
    /\ run["star"].after = "load_data"
    /\ run["star"].raised = "none"
    /\ TableRows(db["star"], "sales_facts") # <<>>

(***************************************************************************)
(* The generator.                                                          *)
(***************************************************************************)
Generated == gen.pc = "done"

\* C13: in every dataset save_data_to_csv has written, each of the ten
\* references (the four of a sales fact, and region -> country, city ->
\* region, subcategory -> category, product -> subcategory, customer ->
\* city, salesperson -> region) is a key of its generated parent file.
C13_GeneratedReferencesResolve == Generated => NoDanglingReferences(flat)

\* A generated dataset whose rows point at different parents.
C13_Witness ==
    /\ Generated
    /\ Cardinality({flat.sales_facts[i].product_id : i \in DOMAIN flat.sales_facts}) > 1
    /\ Cardinality({flat.sales_facts[i].time_id : i \in DOMAIN flat.sales_facts}) > 1
    /\ \E i \in DOMAIN flat.cities : flat.cities[i].region_id = NUM_REGIONS
    /\ \E i \in DOMAIN flat.customers : flat.customers[i].city_id = NUM_CITIES

\* Distance, in thousandths of a cent, between the stored total of a fact
\* and quantity x unit_price x (1 - discount).
RoundingError(f) ==
    LET gross == f.quantity * f.unit_price
        error == gross * f.discount - PerMille * (gross - f.total_amount)
    IN  IF error < 0 THEN 0 - error ELSE error

\* C14: every generated sales fact carries the unit price of the product it
\* references, an integer quantity of at least 1, a discount between 0 and
\* 0.2, and as total the cent amount nearest to
\* quantity x unit_price x (1 - discount).
C14_TotalAmountRounded ==
    Generated =>
        \A i \in DOMAIN flat.sales_facts :
            LET f == flat.sales_facts[i]
            IN  /\ \E j \in DOMAIN flat.products :
                      /\ flat.products[j].product_id = f.product_id
                      /\ flat.products[j].unit_price = f.unit_price
                /\ f.quantity \in Nat /\ f.quantity >= 1
                /\ f.discount >= 0 /\ 5 * f.discount <= PerMille
                /\ 2 * RoundingError(f) <= PerMille

\* A generated fact whose discounted amount is not a whole number of cents,
\* beside one sold without discount.
C14_Witness ==
    /\ Generated
    /\ \E i \in DOMAIN flat.sales_facts :
          LET f == flat.sales_facts[i]
          IN  /\ (f.quantity * f.unit_price * f.discount) % PerMille # 0
              /\ f.total_amount < f.quantity * f.unit_price
    /\ \E i \in DOMAIN flat.sales_facts : flat.sales_facts[i].discount = 0

TimeReturned == gen.pc = "returned"

\* The returned rows start on 2022-01-01 with time_id 1, end on 2024-12-31,
\* and each next row is the next calendar day with a larger time_id.
OneRowPerDay(time_data) ==
    /\ time_data # <<>>
    /\ time_data[1].date = [year |-> 2022, month |-> 1, day |-> 1]
    /\ time_data[1].time_id = 1
    /\ time_data[Len(time_data)].date = [year |-> 2024, month |-> 12, day |-> 31]
    /\ \A i \in DOMAIN time_data :
          LET d == time_data[i].date
          IN  d.month \in 1..12 /\ d.day \in 1..DaysInMonth(d.year, d.month)
    /\ \A i \in 1..(Len(time_data) - 1) :
          /\ ToOrdinal(time_data[i + 1].date) = ToOrdinal(time_data[i].date) + 1
          /\ time_data[i + 1].time_id > time_data[i].time_id

\* C15: generate_time_data terminates, and what it returns has exactly one
\* row for each calendar day from 2022-01-01 through 2024-12-31, with
\* time_id starting at 1 and strictly increasing with the date.
C15_TimeDataTerminatesComplete ==
    /\ <>TimeReturned
    /\ [](TimeReturned => OneRowPerDay(gen.time_data))

\* The function has returned, with the leap day of 2024 among the rows.
C15_Witness ==
    /\ TimeReturned
    /\ \E i \in DOMAIN gen.time_data :
          gen.time_data[i].date = [year |-> 2024, month |-> 2, day |-> 29]

\* C16: in every row of the time dimension the quarter label is "Q" followed
\* by ceil(month / 3), and year, month and day are those of the row's date.
C16_QuarterFollowsMonth ==
    \A i \in DOMAIN gen.time_data :
        LET r == gen.time_data[i]
            ceil == CHOOSE q \in 1..r.month : 3 * q >= r.month /\ 3 * (q - 1) < r.month
        IN  /\ r.quarter = <<"Q", ceil>>
            /\ r.year = r.date.year
            /\ r.month = r.date.month
            /\ r.day = r.date.day

\* All twelve months and all four labels are among the returned rows.
C16_Witness ==
    /\ TimeReturned
    /\ {gen.time_data[i].month : i \in DOMAIN gen.time_data} = 1..12
    /\ {gen.time_data[i].quarter : i \in DOMAIN gen.time_data}
          = {<<"Q", q>> : q \in 1..4}

(***************************************************************************)
(* What the builders load.                                                 *)
(***************************************************************************)
\* The flat file each snowflake table is named after.
SnowflakeSource ==
    [dim_country |-> "countries", dim_region |-> "regions", dim_city |-> "cities",
     dim_category |-> "categories", dim_subcategory |-> "subcategories",
     dim_product |-> "products", dim_customer |-> "customers",
     dim_salesperson |-> "sales_people", dim_time |-> "time_dimension",
     sales_facts |-> "sales_facts"]

\* C17: after a completed snowflake build the store has the ten snowflake
\* tables and each holds exactly the rows, with their columns, of its flat
\* file; after both builds sales_facts and dim_time hold the same rows in
\* the star store as in the snowflake store.
C17_SnowflakeLoadsVerbatim ==
    /\ built["snowflake"] =>
          /\ DOMAIN db["snowflake"].tables = DOMAIN SnowflakeSource
          /\ \A t \in DOMAIN SnowflakeSource :
                TableRows(db["snowflake"], t) = flat[SnowflakeSource[t]]
    /\ BothBuilt =>
          \A t \in {"sales_facts", "dim_time"} :
              TableRows(db["star"], t) = TableRows(db["snowflake"], t)

\* Both stores are built from files over which the star builder's joins
\* drop a product that the snowflake store keeps.
C17_Witness ==
    /\ BothBuilt
    /\ TableRows(db["snowflake"], "sales_facts") # <<>>
    /\ Len(TableRows(db["star"], "dim_product")) < Len(flat.products)
    /\ Len(TableRows(db["snowflake"], "dim_product")) = Len(flat.products)

\* The result of suite entry 1 on the store of builder b.
RegionQuery(b) ==
    IF b = "star" THEN StarQuery1(db["star"]) ELSE SnowflakeQuery1(db["snowflake"])

\* C18: on either store, built from files as the generator writes them, the
\* total_sales of the rows of the sales-by-region query add up to the sum
\* of total_amount over all rows of sales_facts, and their
\* transaction_count to the number of rows of sales_facts.
C18_RegionQueryCoversFacts ==
    (BothBuilt /\ GeneratorLike(flat)) =>
        \A b \in Builders :
            LET result == RegionQuery(b)
                facts == TableRows(db[b], "sales_facts")
            IN  /\ SumSeq([i \in DOMAIN result |-> result[i].total_sales])
                      = SumSeq([i \in DOMAIN facts |-> facts[i].total_amount])
                /\ SumSeq([i \in DOMAIN result |-> result[i].transaction_count])
                      = Len(facts)

\* Generator-like files whose facts fall into one region, and such files
\* whose facts fall into different regions, are both built from; the
\* witness is the first case, where a group adds two amounts up.
C18_Witness ==
    /\ BothBuilt
    /\ GeneratorLike(flat)
    /\ \A b \in Builders :
          /\ Len(RegionQuery(b)) = 1
          /\ RegionQuery(b)[1].transaction_count > 1
          /\ RegionQuery(b)[1].total_sales > flat.sales_facts[1].total_amount

\* The table holds rows.
Loaded(store, table) == HasTable(store, table) /\ TableRows(store, table) # <<>>

\* <<table, parent>>: the table references the parent.
LoadsAfter(b) ==
    {<<"sales_facts", "dim_product">>, <<"sales_facts", "dim_customer">>,
     <<"sales_facts", "dim_salesperson">>, <<"sales_facts", "dim_time">>}
    \cup (IF b = "star" THEN {}
          ELSE {<<"sales_facts", "dim_country">>, <<"sales_facts", "dim_region">>,
                <<"sales_facts", "dim_city">>, <<"sales_facts", "dim_category">>,
                <<"sales_facts", "dim_subcategory">>,
                <<"dim_region", "dim_country">>, <<"dim_city", "dim_region">>,
                <<"dim_customer", "dim_city">>,
                <<"dim_subcategory", "dim_category">>,
                <<"dim_product", "dim_subcategory">>,
                <<"dim_salesperson", "dim_region">>})

ParentsLoadedFirst(b, store) ==
    \A pair \in LoadsAfter(b) : Loaded(store, pair[1]) => Loaded(store, pair[2])

\* C19: load_data loads in foreign-key dependency order.  Wherever one of
\* its to_sql calls stops it, and when it has returned, a table of the
\* store holds rows only if every table it references does: sales_facts
\* after every dimension table, and in the snowflake store country before
\* region before city before customer, category before subcategory before
\* product, region before salesperson.
C19_ParentsLoadedFirst ==
    \A b \in Builders :
        /\ run[b].pc = "load_data" =>
              \A fault \in 0..Len(Frames(b, flat)) :
                  ParentsLoadedFirst(b, load_data(b, db[b], flat, fault).store)
        /\ (run[b].steps # <<>> /\ run[b].steps[Len(run[b].steps)] = "load_data") =>
              ParentsLoadedFirst(b, db[b])

\* The snowflake load was stopped half way: the geography tables hold rows,
\* dim_product and sales_facts hold none.
C19_Witness ==
    /\ run["snowflake"].raised = "load_data"
    /\ Loaded(db["snowflake"], "dim_city")
    /\ ~Loaded(db["snowflake"], "dim_product")
    /\ ~Loaded(db["snowflake"], "sales_facts")

(***************************************************************************)
(* What a build touches.                                                   *)
(***************************************************************************)
\* A step of the build of builder b leaves the other builder's store and
\* the flat files as they are.
BuildStepInFrame(b) ==
    run[b].pc # "idle" =>
        /\ \A other \in Builders \ {b} : db'[other] = db[other]
        /\ flat' = flat

\* C20: with the default paths every step of a star build leaves the
\* snowflake store and the ten flat files unchanged, every step of a
\* snowflake build leaves the star store and the flat files unchanged, and
\* once both builds are completed each store is what a build over the flat
\* files alone gives, whichever build ran first.
C20_BuildsChangeOwnStoreOnly ==
    /\ [][\A b \in Builders : BuildStepInFrame(b)]_vars
    /\ [](BothBuilt => \A b \in Builders : db[b].tables = FreshBuild(b).tables)

\* The snowflake build was completed first, the star build after it.
C20_Witness ==
    /\ BothBuilt
    /\ run["snowflake"].pc = "idle"
    /\ run["star"].pc = "done"
    /\ TableRows(db["star"], "sales_facts") # <<>>
    /\ TableRows(db["snowflake"], "dim_city") # <<>>

(***************************************************************************)
(* The comparator's reports.                                               *)
(***************************************************************************)
\* C21: whatever the measured times, zero included, the speed-ratio
\* reporting of run_performance_tests and of print_detailed_results ends
\* without a division-by-zero error.
C21_RatioReportingCompletes == cmp.error # "ZeroDivisionError"

\* One comparator, both stores built by an entry point started before,
\* run_performance_tests called up to MaxRuns - 1 times.  The flat files are
\* those of a constant stream or of the stream that starts low and stays
\* high.
InitCalls ==
    /\ gen = NoGenerator
    /\ LET py == [i \in 1..PyPeriod |-> IF i = 1 THEN 0 ELSE RandTop]
       IN  flat \in ConstantSeedDatasets
                    \cup {save_data_to_csv(py, [i \in 1..NpPeriod |-> Draw(py, i)])}
    /\ db = [b \in Builders |-> FreshBuild(b)]
    /\ run = [b \in Builders |-> IdleRun]
    /\ built = [b \in Builders |-> TRUE]
    /\ first = [b \in Builders |-> [taken |-> TRUE, rows |-> Rows(FreshBuild(b))]]
    /\ cmp = NewComparator
    /\ budget = MaxRuns - 1

NextCalls ==
    \E clock \in ClockTapes, fault \in FaultPoints(2 + 2 * Len(QueryNames)) :
        CallRunPerformanceTests(clock, fault)

SpecCalls == InitCalls /\ [][NextCalls]_vars

\* The entry of query q that a call with these clock readings appends.
EntryOf(q, clock) ==
    [query_name |-> QueryNames[q],
     star_time_ms |-> Draw(clock, 2 * q - 1),
     snowflake_time_ms |-> Draw(clock, 2 * q),
     star_results |-> Limit(StarQuery(q, db["star"]), ResultsKept),
     snowflake_results |-> Limit(SnowflakeQuery(q, db["snowflake"]), ResultsKept)]

\* C22: as long as every call of run_performance_tests on a comparator has
\* completed, results holds one entry per query and call, the names in
\* suite order; the entries of the last call carry the star time read
\* before the snowflake time and the first rows of each result; and the
\* list returned is the whole of results.
C22_ResultsAccumulate ==
    (cmp.error = "none" /\ cmp.calls > 0) =>
        /\ Len(cmp.results) = Len(QueryNames) * cmp.calls
        /\ \A i \in DOMAIN cmp.results :
              cmp.results[i].query_name = QueryNames[((i - 1) % Len(QueryNames)) + 1]
        /\ \A q \in DOMAIN QueryNames :
              cmp.results[Len(QueryNames) * (cmp.calls - 1) + q] = EntryOf(q, cmp.clock)
        /\ \A i \in DOMAIN cmp.results :
              /\ Len(cmp.results[i].star_results) <= ResultsKept
              /\ Len(cmp.results[i].snowflake_results) <= ResultsKept
        /\ cmp.returned = cmp.results

\* Two calls have completed with different readings for the two stores,
\* and a result of more rows than are kept was cut.
C22_Witness ==
    /\ cmp.error = "none"
    /\ cmp.calls = 2
    /\ cmp.results[1].star_time_ms # cmp.results[1].snowflake_time_ms
    /\ cmp.results[1] # cmp.results[Len(QueryNames) + 1]
    /\ Len(StarQuery(1, db["star"])) > ResultsKept

(***************************************************************************)
(* Builds over missing flat files.                                         *)
(***************************************************************************)
\* The builders run without faults; between their runs one flat file, or
\* all of them, may be removed.
NextMissing ==
    \/ \E b \in Builders :
          \/ StartMain(b)
          \/ Connect(b, 0)
          \/ CreateSchema(b, 0)
          \/ LoadData(b, 0)
          \/ PrintSchemaInfo(b, 0)
          \/ Disconnect(b)
          \/ Return(b)
    \/ \E files \in {SourceFiles} \cup {{file} : file \in SourceFiles} :
          RemoveFlatFiles(files)

SpecMissing == Init /\ [][NextMissing]_vars

\* The tables of the schema of builder b.
TablesOf(b) ==
    IF b = "star"
    THEN {"dim_time", "dim_product", "dim_customer", "dim_salesperson", "sales_facts"}
    ELSE {"dim_country", "dim_region", "dim_city", "dim_category",
          "dim_subcategory", "dim_product", "dim_customer", "dim_salesperson",
          "dim_time", "sales_facts"}

\* C23: a build that runs while a flat file is missing fails in load_data,
\* which is called once and not again, and leaves the store with every table
\* of its schema there and empty, whatever the store held before.
C23_MissingFileLeavesEmptyTables ==
    \A b \in Builders :
        (run[b].pc = "done" /\ \E file \in SourceFiles : file \notin DOMAIN flat) =>
            /\ run[b].raised = "load_data"
            /\ run[b].steps = <<"connect", "create_schema", "load_data">>
            /\ DOMAIN db[b].tables = TablesOf(b)
            /\ \A t \in TablesOf(b) : TableRows(db[b], t) = <<>>

\* The star store was built and held rows; then sales_facts.csv alone was
\* removed and the star build run again.
C23_Witness ==
    /\ run["star"].pc = "done"
    /\ run["star"].raised = "load_data"
    /\ SourceFiles \ DOMAIN flat = {"sales_facts"}
    /\ first["star"].taken
    /\ first["star"].rows["sales_facts"] # <<>>

\* C24: a step of a comparison run leaves both stores as they are: no store
\* file is created and no table or row of a store is added, removed or
\* altered, whether or not the store files exist when the run starts.
C24_ComparisonLeavesStores == [][cmp.pc # "idle" => db' = db]_vars

=============================================================================
